---- MODULE Spec2Model ----
(***************************************************************************)
(* Model of the phone agent's control loop (phone_agent/agent.py), its     *)
(* action parser and executor (phone_agent/actions/handler.py), the model  *)
(* client's failure handling (phone_agent/model/client.py) and the device  *)
(* primitives the executor calls (phone_agent/adb).                        *)
(*                                                                         *)
(* Strings that the program only carries around are kept as strings; a     *)
(* formatted message f"prefix{arg}" is the record [fmt, arg].  The raw     *)
(* action texts are concrete Python source texts; what eval() makes of     *)
(* each is tabulated in Form and Kwargs.  The text of a context message is *)
(* identified by the step whose perception or response it was built from.  *)
(***************************************************************************)
EXTENDS Integers, Sequences, FiniteSets, TLC

\* ------------------------------------------------------------------ bounds

\* Largest configured AgentConfig.max_steps explored (0..MaxStepsBound).
MaxStepsBound == 3

\* Largest value self._step_count may take through step() calls, which the
\* code does not bound.
MaxCalls == 3

\* ------------------------------------------------------- program constants

DEVICE_WIDTH == 720
DEVICE_HEIGHT == 1604

\* The largest jitter tap() adds to a coordinate: random.randint(-5, 5).
JITTER == 5

\* DEFAULT_FALLBACK_SIZE, as (width, height).
DEFAULT_FALLBACK_SIZE == <<DEVICE_WIDTH, DEVICE_HEIGHT>>

\* Sizes a real screenshot may have: the device's portrait size and a second
\* device's size (screen geometry may differ between steps).
Screens == {<<720, 1604>>, <<1080, 2400>>}

\* ------------------------------------------------------------ Python values

\* Python None as a dict value, and the result of dict.get on a missing key.
NoneVal == "None"

\* A key that is not in the dict.
Absent == "<absent>"

\* An action name that is a list literal: not hashable.
ListName == "['Tap']"

\* f"{fmt}{arg}"; Python None is NoneMsg, a plain string s is Str(s).
NoneMsg == [fmt |-> "None", arg |-> ""]

Str(s) == [fmt |-> "{}", arg |-> s]

\* The message key is not in the dict ("message" in action is false).
AbsentMsg == [fmt |-> Absent, arg |-> ""]

\* Python truthiness of an optional string.
Truthy(m) == m # NoneMsg /\ m # Str("")

\* Faulty variant: the second operand, whatever the first.
OrSecond(a, b) == b

\* a or b
Or(a, b) == IF Truthy(a) THEN a ELSE b

\* A coordinate field value.  form: "none" (key missing), "list" (a native
\* [x, y]), "str" (the string "[x, y]"), "text" (free text holding the two
\* integers), "dict" (a string that is a dict display holding the two
\* integers), "word" (a string with no digits), "short" (a one-element list).
Coord(form, x, y) == [form |-> form, x |-> x, y |-> y]

NoCoord == Coord("none", 0, 0)

\* The keyword arguments of a call, before do() or finish() tags them.
NoKwargs ==
    [metadata |-> Absent, action |-> NoneVal, element |-> NoCoord,
     start |-> NoCoord, end |-> NoCoord, message |-> AbsentMsg, app |-> NoneVal,
     note |-> Absent]

\* The function object the name finish evaluates to.
FinishFunction == "<function finish>"

\* action.get("message")
GetMessage(action) ==
    IF action.message = AbsentMsg THEN NoneMsg ELSE action.message

\* ------------------------------------------------------------ action texts

T_TAP == "do(action='Tap', element=[500,500])"
T_TAP_FAR == "do(action='Tap', element=[900,900])"
T_TAP_TEXT == "do(action='Tap', element='x 500 y 500')"
T_TAP_DICT == "do(action='Tap', element='{\"x\": 500, \"y\": 500}')"
T_TAP_STR == "do(action='Tap', element='[100,900]')"
T_TAP_MSG == "do(action='Tap', element=[500,500], message='pay')"
T_TAP_NOEL == "do(action='Tap')"
T_TAP_WORD == "do(action='Tap', element='here')"
T_TAP_MSG_WORD == "do(action='Tap', element='here', message='pay')"
T_TYPE == "do(action='Type', text='hi')"
T_SWIPE == "do(action='Swipe', start=[500,800], end=[500,200])"
T_BACK == "do(action='Back')"
T_HOME == "do(action='Home')"
T_LAUNCH == "do(action='Launch', app='Chrome')"
T_LAUNCH_NOAPP == "do(action='Launch')"
T_DOUBLE_TAP == "do(action='Double Tap', element=[500,500])"
T_LONG_PRESS == "do(action='Long Press', element=[500,500])"
T_DOUBLE_TAP_WORD == "do(action='Double Tap', element='here')"
T_LONG_PRESS_SHORT == "do(action='Long Press', element=[500])"
T_SWIPE_WORD == "do(action='Swipe', start=[500,800], end='up')"
T_WAIT == "do(action='Wait', duration='2 seconds')"
T_WAIT_SUM == "do(action='Wait', duration=1+1)"
T_NOTE_ATTR == "do(action='Note', message=do.__name__)"
T_TAKE_OVER == "do(action='Take_over', message='login')"
T_TAKE_OVER_BARE == "do(action='Take_over')"
T_NOTE == "do(action='Note', message='n')"
T_CALL_API == "do(action='Call_API', instruction='i')"
T_INTERACT == "do(action='Interact')"
T_FLY == "do(action='Fly')"
T_NO_NAME == "do()"
T_LIST_NAME == "do(action=['Tap'])"
T_FINISH == "finish(message='done')"
T_FINISH_BARE == "finish()"
T_FINISH_SENTINEL == "finish(message='Max steps reached')"
T_API_FAILED == "finish(message='API call failed')"
T_EMPTY_RESPONSE == "finish(message='Empty response')"
T_DICT == "{'_metadata': 'noop'}"
T_PROSE == "I will tap the button"
T_PROSE_FINISH == "The task is finished"
T_NUMBER == "42"
T_BLANK == ""
T_DO_UNQUOTED == "do(action=Type, text='finish')"
T_BACK_NOTE == "do(action='Back', note=finish)"
T_TYPE_CUT == "do(action='Type', text='finish (now)"

\* A completion whose call has a closing parenthesis inside a string.
C_TYPE_PARENS == "do(action='Type', text='finish (now)')"

\* The action texts the model's completions lead to in this model.
ModelTexts ==
    {T_TAP, T_TAP_STR, T_TAP_MSG, T_TAP_NOEL, T_TAP_WORD, T_TAP_MSG_WORD,
     T_TYPE, T_SWIPE, T_BACK, T_HOME, T_LAUNCH, T_LAUNCH_NOAPP, T_DOUBLE_TAP,
     T_LONG_PRESS, T_WAIT, T_TAKE_OVER, T_NOTE, T_CALL_API, T_INTERACT, T_FLY,
     T_NO_NAME, T_LIST_NAME, T_FINISH, T_FINISH_BARE, T_DICT, T_PROSE,
     T_PROSE_FINISH, T_NUMBER, T_BLANK, T_TAKE_OVER_BARE,
     T_FINISH_SENTINEL, T_TAP_FAR, T_DOUBLE_TAP_WORD, T_LONG_PRESS_SHORT,
     T_SWIPE_WORD, T_DO_UNQUOTED, T_TAP_TEXT, T_TAP_DICT,
     T_WAIT_SUM, T_NOTE_ATTR, T_BACK_NOTE}

\* What kind of Python expression the text is: a call of do, a call of
\* finish, a dict display, another value, an expression whose evaluation
\* raises (an undefined name), or no expression at all.
Form(text) ==
    CASE text \in {T_FINISH, T_FINISH_BARE, T_FINISH_SENTINEL, T_API_FAILED,
                    T_EMPTY_RESPONSE}
            -> "call_finish"
      [] text = T_DICT -> "dict"
      [] text = T_NUMBER -> "value"
      [] text \in {T_PROSE, T_PROSE_FINISH, T_BLANK, T_TYPE_CUT} -> "invalid"
      [] text = T_DO_UNQUOTED -> "raises"
      [] OTHER -> "call_do"

\* The keyword arguments of the call (the entries of the dict display).
Kwargs(text) ==
    CASE text = T_TAP ->
            [NoKwargs EXCEPT !.action = "Tap", !.element = Coord("list", 500, 500)]
      [] text = T_TAP_FAR ->
            [NoKwargs EXCEPT !.action = "Tap", !.element = Coord("list", 900, 900)]
      [] text = T_TAP_TEXT ->
            [NoKwargs EXCEPT !.action = "Tap", !.element = Coord("text", 500, 500)]
      [] text = T_TAP_DICT ->
            [NoKwargs EXCEPT !.action = "Tap", !.element = Coord("dict", 500, 500)]
      [] text = T_TAP_STR ->
            [NoKwargs EXCEPT !.action = "Tap", !.element = Coord("str", 100, 900)]
      [] text = T_TAP_MSG ->
            [NoKwargs EXCEPT !.action = "Tap", !.element = Coord("list", 500, 500),
                             !.message = Str("pay")]
      [] text = T_TAP_NOEL -> [NoKwargs EXCEPT !.action = "Tap"]
      [] text = T_TAP_WORD ->
            [NoKwargs EXCEPT !.action = "Tap", !.element = Coord("word", 0, 0)]
      [] text = T_TAP_MSG_WORD ->
            [NoKwargs EXCEPT !.action = "Tap", !.element = Coord("word", 0, 0),
                             !.message = Str("pay")]
      [] text \in {T_TYPE, C_TYPE_PARENS} -> [NoKwargs EXCEPT !.action = "Type"]
      [] text = T_SWIPE ->
            [NoKwargs EXCEPT !.action = "Swipe", !.start = Coord("list", 500, 800),
                             !.end = Coord("list", 500, 200)]
      [] text = T_BACK -> [NoKwargs EXCEPT !.action = "Back"]
      [] text = T_BACK_NOTE ->
            [NoKwargs EXCEPT !.action = "Back", !.note = FinishFunction]
      [] text = T_HOME -> [NoKwargs EXCEPT !.action = "Home"]
      [] text = T_LAUNCH -> [NoKwargs EXCEPT !.action = "Launch", !.app = "Chrome"]
      [] text = T_LAUNCH_NOAPP -> [NoKwargs EXCEPT !.action = "Launch"]
      [] text = T_DOUBLE_TAP ->
            [NoKwargs EXCEPT !.action = "Double Tap",
                             !.element = Coord("list", 500, 500)]
      [] text = T_LONG_PRESS ->
            [NoKwargs EXCEPT !.action = "Long Press",
                             !.element = Coord("list", 500, 500)]
      [] text = T_DOUBLE_TAP_WORD ->
            [NoKwargs EXCEPT !.action = "Double Tap",
                             !.element = Coord("word", 0, 0)]
      [] text = T_LONG_PRESS_SHORT ->
            [NoKwargs EXCEPT !.action = "Long Press",
                             !.element = Coord("short", 500, 0)]
      [] text = T_SWIPE_WORD ->
            [NoKwargs EXCEPT !.action = "Swipe", !.start = Coord("list", 500, 800),
                             !.end = Coord("word", 0, 0)]
      [] text \in {T_WAIT, T_WAIT_SUM} -> [NoKwargs EXCEPT !.action = "Wait"]
      [] text = T_NOTE_ATTR ->
            [NoKwargs EXCEPT !.action = "Note", !.message = Str("do")]
      [] text = T_TAKE_OVER ->
            [NoKwargs EXCEPT !.action = "Take_over", !.message = Str("login")]
      [] text = T_TAKE_OVER_BARE -> [NoKwargs EXCEPT !.action = "Take_over"]
      [] text = T_NOTE -> [NoKwargs EXCEPT !.action = "Note", !.message = Str("n")]
      [] text = T_CALL_API -> [NoKwargs EXCEPT !.action = "Call_API"]
      [] text = T_INTERACT -> [NoKwargs EXCEPT !.action = "Interact"]
      [] text = T_FLY -> [NoKwargs EXCEPT !.action = "Fly"]
      [] text = T_LIST_NAME -> [NoKwargs EXCEPT !.action = ListName]
      [] text = T_FINISH -> [NoKwargs EXCEPT !.message = Str("done")]
      [] text = T_FINISH_SENTINEL ->
            [NoKwargs EXCEPT !.message = Str("Max steps reached")]
      [] text = T_API_FAILED -> [NoKwargs EXCEPT !.message = Str("API call failed")]
      [] text = T_EMPTY_RESPONSE -> [NoKwargs EXCEPT !.message = Str("Empty response")]
      [] text = T_DICT -> [NoKwargs EXCEPT !.metadata = "noop"]
      [] OTHER -> NoKwargs

\* The text holds an expression that is not a call of do or finish with
\* literal keyword values: arithmetic, an attribute access, another name, a
\* dict display.
OtherExpression(text) ==
    text \in {T_WAIT_SUM, T_NOTE_ATTR, T_DO_UNQUOTED, T_DICT, T_BACK_NOTE}

\* "finish" in response
ContainsFinish(text) ==
    text \in {T_FINISH, T_FINISH_BARE, T_FINISH_SENTINEL, T_API_FAILED,
              T_EMPTY_RESPONSE, T_PROSE_FINISH, T_DO_UNQUOTED, T_TYPE_CUT,
              C_TYPE_PARENS, T_BACK_NOTE}

\* ------------------------------------------------------------------ parser

do(kwargs) == [kwargs EXCEPT !.metadata = "do"]

finish(kwargs) == [kwargs EXCEPT !.metadata = "finish"]

\* finish(message=m)
FinishWith(m) == finish([NoKwargs EXCEPT !.message = m])

\* eval(response, {"__builtins__": None}, {"do": do, "finish": finish}):
\* raised is a SyntaxError or another exception of the evaluation.
Eval(text) ==
    CASE Form(text) = "call_do" ->
            [raised |-> FALSE, isDict |-> TRUE, value |-> do(Kwargs(text))]
      [] Form(text) = "call_finish" ->
            [raised |-> FALSE, isDict |-> TRUE, value |-> finish(Kwargs(text))]
      [] Form(text) = "dict" ->
            [raised |-> FALSE, isDict |-> TRUE, value |-> Kwargs(text)]
      [] Form(text) = "value" ->
            [raised |-> FALSE, isDict |-> FALSE, value |-> NoKwargs]
      [] OTHER -> [raised |-> TRUE, isDict |-> FALSE, value |-> NoKwargs]

\* The fallback of parse_action when the evaluation gave no action:
\* {"_metadata": "finish", "message": "Task Completed"}.
TaskCompleted == FinishWith(Str("Task Completed"))

\* parse_action(response): ok = FALSE is the ValueError it raises.
parse_action(text) ==
    LET ev == Eval(text)
    IN  IF ~ev.raised /\ ev.isDict /\ ev.value.metadata # Absent
        THEN [ok |-> TRUE, action |-> ev.value]
        ELSE IF ContainsFinish(text)
             THEN [ok |-> TRUE, action |-> TaskCompleted]
             ELSE [ok |-> FALSE, action |-> NoKwargs]

\* ---------------------------------------------------------------- executor

ActionResult(success, should_finish, message) ==
    [success |-> success, should_finish |-> should_finish, message |-> message]

\* One call of a device primitive or of a human hook.
Call(op, args) == [op |-> op, args |-> args]

ADB_IME == "com.android.adbkeyboard/.AdbIME"

OTHER_IME == "com.google.android.inputmethod.latin/.LatinIME"

\* What "settings get secure default_input_method" prints on a device with
\* input method ime, as current_ime reads it: the input method, nothing, or
\* a text that names no input method.
ImeQuery(ime) == {ime, "", "null"}

\* (n, d) for which n / 1000.0 * d, in IEEE double arithmetic, falls just
\* below the integer n * d / 1000 (d among the widths and heights of
\* Screens), so that int() gives one less.
FloatShort ==
    {<<175, 720>>, <<350, 720>>, <<575, 720>>, <<700, 720>>,
     <<205, 2400>>, <<285, 2400>>, <<345, 2400>>, <<410, 2400>>,
     <<565, 2400>>, <<570, 2400>>, <<690, 2400>>, <<695, 2400>>,
     <<815, 2400>>, <<820, 2400>>}

\* int(float(n) / 1000.0 * d)
Pixel(n, d) ==
    IF <<n, d>> \in FloatShort THEN (n * d) \div 1000 - 1 ELSE (n * d) \div 1000

\* Faulty variant: every element is taken for a pair of numbers.
ConvertAnything(element, screen_width, screen_height) ==
    [ok |-> TRUE, x |-> Pixel(element.x, screen_width),
     y |-> Pixel(element.y, screen_height)]

\* _convert_relative_to_absolute: ok = FALSE is the ValueError it raises.
ConvertRelativeToAbsolute(element, screen_width, screen_height) ==
    IF element.form \in {"list", "str", "text"}
    THEN [ok |-> TRUE, x |-> Pixel(element.x, screen_width),
          y |-> Pixel(element.y, screen_height)]
    ELSE [ok |-> FALSE, x |-> 0, y |-> 0]

\* What a handler does when no primitive and no hook raises: the calls it
\* makes, in order, then either its own exception (raises) or its result.
Ran(calls, result) == [calls |-> calls, raises |-> FALSE, result |-> result]

Raised(calls, why) ==
    [calls |-> calls, raises |-> TRUE,
     result |-> ActionResult(FALSE, FALSE, [fmt |-> "Action failed: ", arg |-> why])]

\* Faulty variant: an app that is not found ends the run.
HandleLaunchEnds(action, appKnown) ==
    IF action.app = NoneVal
    THEN Ran(<<>>, ActionResult(FALSE, FALSE, Str("No app name specified")))
    ELSE IF appKnown
         THEN Ran(<<Call("launch_app", <<>>)>>, ActionResult(TRUE, FALSE, NoneMsg))
         ELSE Ran(<<Call("launch_app", <<>>)>>,
                  ActionResult(FALSE, TRUE, [fmt |-> "App not found: ", arg |-> action.app]))

HandleLaunch(action, appKnown) ==
    IF action.app = NoneVal
    THEN Ran(<<>>, ActionResult(FALSE, FALSE, Str("No app name specified")))
    ELSE IF appKnown
         THEN Ran(<<Call("launch_app", <<>>)>>, ActionResult(TRUE, FALSE, NoneMsg))
         ELSE Ran(<<Call("launch_app", <<>>)>>,
                  ActionResult(FALSE, FALSE, [fmt |-> "App not found: ", arg |-> action.app]))

\* "message" in action, asked by _handle_tap before it taps.
IsSensitive(action) == action.message # AbsentMsg

\* Faulty variant: the tap is issued whatever the hook answers.
HandleTapUngated(action, width, height, answer) ==
    LET p == ConvertRelativeToAbsolute(action.element, width, height)
        tapCall == Call("tap", <<p.x, p.y>>)
    IN  IF action.element.form = "none"
        THEN Ran(<<>>, ActionResult(FALSE, FALSE, Str("No element coordinates")))
        ELSE IF ~p.ok
        THEN Raised(<<>>, "Invalid element format")
        ELSE IF IsSensitive(action)
        THEN Ran(<<Call("confirm", <<>>), tapCall>>, ActionResult(TRUE, FALSE, NoneMsg))
        ELSE Ran(<<tapCall>>, ActionResult(TRUE, FALSE, NoneMsg))

HandleTap(action, width, height, answer) ==
    LET p == ConvertRelativeToAbsolute(action.element, width, height)
        tapCall == Call("tap", <<p.x, p.y>>)
    IN  IF action.element.form = "none"
        THEN Ran(<<>>, ActionResult(FALSE, FALSE, Str("No element coordinates")))
        ELSE IF ~p.ok
        THEN Raised(<<>>, "Invalid element format")
        ELSE IF IsSensitive(action)
        THEN IF ~answer
             THEN Ran(<<Call("confirm", <<>>)>>,
                      ActionResult(FALSE, TRUE, Str("User cancelled sensitive operation")))
             ELSE Ran(<<Call("confirm", <<>>), tapCall>>,
                      ActionResult(TRUE, FALSE, NoneMsg))
        ELSE Ran(<<tapCall>>, ActionResult(TRUE, FALSE, NoneMsg))

\* detect_and_set_adb_keyboard, as the calls it makes when the query answers
\* ime.
DetectAndSetAdbKeyboard(ime) ==
    <<Call("ime_get", <<>>)>>
    \o (IF ime # ADB_IME
        THEN <<Call("ime_enable", <<>>), Call("ime_set_adb", <<>>)>>
        ELSE <<>>)
    \o <<Call("type_text", <<>>)>>

\* restore_keyboard(original_ime)
RestoreKeyboard(original_ime) ==
    IF original_ime = "" \/ original_ime = ADB_IME
    THEN <<>>
    ELSE <<Call("ime_restore", <<original_ime>>)>>

HandleType(action, ime) ==
    Ran(DetectAndSetAdbKeyboard(ime)
        \o <<Call("clear_text", <<>>), Call("type_text", <<>>)>>
        \o RestoreKeyboard(ime),
        ActionResult(TRUE, FALSE, NoneMsg))

HandleSwipe(action, width, height) ==
    LET s == ConvertRelativeToAbsolute(action.start, width, height)
        e == ConvertRelativeToAbsolute(action.end, width, height)
    IN  IF action.start.form = "none" \/ action.end.form = "none"
        THEN Ran(<<>>, ActionResult(FALSE, FALSE, Str("Missing coordinates")))
        ELSE IF ~s.ok \/ ~e.ok
        THEN Raised(<<>>, "Invalid element format")
        ELSE Ran(<<Call("swipe", <<s.x, s.y, e.x, e.y>>)>>,
                 ActionResult(TRUE, FALSE, NoneMsg))

\* _handle_double_tap and _handle_long_press, which differ in the primitive.
HandlePress(op, action, width, height) ==
    LET p == ConvertRelativeToAbsolute(action.element, width, height)
    IN  IF action.element.form = "none"
        THEN Ran(<<>>, ActionResult(FALSE, FALSE, Str("No element")))
        ELSE IF ~p.ok
        THEN Raised(<<>>, "Invalid element format")
        ELSE Ran(<<Call(op, <<p.x, p.y>>)>>, ActionResult(TRUE, FALSE, NoneMsg))

\* action.get("message", "Intervention required")
TakeoverMessage(action) ==
    IF action.message = AbsentMsg THEN Str("Intervention required") ELSE action.message

\* Faulty variant: handing over to the operator ends the run.
HandleTakeoverEnds(action) ==
    Ran(<<Call("takeover", <<TakeoverMessage(action)>>)>>,
        ActionResult(TRUE, TRUE, NoneMsg))

HandleTakeover(action) ==
    Ran(<<Call("takeover", <<TakeoverMessage(action)>>)>>,
        ActionResult(TRUE, FALSE, NoneMsg))

\* The keys of the handlers table of _get_handler.
HandlerNames ==
    {"Launch", "Tap", "Type", "Type_Name", "Swipe", "Back", "Home", "Double Tap",
     "Long Press", "Wait", "Take_over", "Note", "Call_API", "Interact"}

\* _get_handler(action_name): handlers.get raises TypeError on a key that is
\* not hashable; a name without a handler gives None.
GetHandler(action_name) ==
    [raised |-> action_name = ListName,
     handler |-> IF action_name \in HandlerNames THEN action_name ELSE NoneVal]

\* handler_method(action, screen_width, screen_height) with nothing raising
\* in the primitives and the hooks.
Handle(name, action, width, height, answer, appKnown, ime) ==
    CASE name = "Launch" -> HandleLaunch(action, appKnown)
      [] name = "Tap" -> HandleTap(action, width, height, answer)
      [] name \in {"Type", "Type_Name"} -> HandleType(action, ime)
      [] name = "Swipe" -> HandleSwipe(action, width, height)
      [] name = "Back" -> Ran(<<Call("back", <<>>)>>, ActionResult(TRUE, FALSE, NoneMsg))
      [] name = "Home" -> Ran(<<Call("home", <<>>)>>, ActionResult(TRUE, FALSE, NoneMsg))
      [] name = "Double Tap" -> HandlePress("double_tap", action, width, height)
      [] name = "Long Press" -> HandlePress("long_press", action, width, height)
      [] name = "Take_over" -> HandleTakeover(action)
      [] name = "Interact" ->
            Ran(<<>>, ActionResult(TRUE, FALSE, Str("Interaction required")))
      [] OTHER -> Ran(<<>>, ActionResult(TRUE, FALSE, NoneMsg))

\* The calls the handler of the action plans to make (none when execute does
\* not reach a handler).
PlannedCalls(action, width, height, answer, appKnown, ime) ==
    IF action.metadata = "do" /\ ~GetHandler(action.action).raised
       /\ GetHandler(action.action).handler # NoneVal
    THEN Handle(GetHandler(action.action).handler, action, width, height,
                answer, appKnown, ime).calls
    ELSE <<>>

NoResult == ActionResult(FALSE, FALSE, NoneMsg)

\* An execution of execute(): raised is an exception leaving execute, calls
\* are the primitives and hooks invoked, in order, and faulted says that the
\* last of them raised.
Executed(raised, result, calls, faulted) ==
    [raised |-> raised, result |-> result, calls |-> calls, faulted |-> faulted]

\* ActionHandler.execute(action, screen_width, screen_height).  answer is
\* what the confirmation hook returns, appKnown whether launch_app knows the
\* app, fault the index of the planned call that raises (0: none does), ime
\* what the input-method query answers.
execute(action, screen_width, screen_height, answer, appKnown, fault, ime) ==
    LET h == GetHandler(action.action)
        plan == Handle(h.handler, action, screen_width, screen_height,
                       answer, appKnown, ime)
    IN  IF action.metadata = "finish"
        THEN Executed(FALSE, ActionResult(TRUE, TRUE, GetMessage(action)), <<>>, FALSE)
        ELSE IF action.metadata # "do"
        THEN Executed(FALSE,
                      ActionResult(FALSE, TRUE,
                                   [fmt |-> "Unknown action type: ", arg |-> action.metadata]),
                      <<>>, FALSE)
        ELSE IF h.raised
        THEN Executed(TRUE, NoResult, <<>>, FALSE)
        ELSE IF h.handler = NoneVal
        THEN Executed(FALSE,
                      ActionResult(FALSE, FALSE,
                                   [fmt |-> "Unknown action: ", arg |-> action.action]),
                      <<>>, FALSE)
        ELSE IF fault \in 1..Len(plan.calls)
        THEN Executed(FALSE,
                      ActionResult(FALSE, FALSE,
                                   [fmt |-> "Action failed: ", arg |-> plan.calls[fault].op]),
                      SubSeq(plan.calls, 1, fault), TRUE)
        ELSE Executed(FALSE, plan.result, plan.calls, FALSE)

\* The draws of random.randint(-5, 5) explored: both extremes.
Jitter == {0 - JITTER, JITTER}

Min(a, b) == IF a < b THEN a ELSE b

Max(a, b) == IF a > b THEN a ELSE b

\* tap(x, y): the coordinates of the "input tap" command it runs, with the
\* jitter it drew.
tap(x, y, jitter_x, jitter_y) ==
    <<Max(0, Min(x + jitter_x, DEVICE_WIDTH)), Max(0, Min(y + jitter_y, DEVICE_HEIGHT))>>

\* The calls that took effect: a call that raised did nothing.
Completed(ex) ==
    IF ex.faulted THEN SubSeq(ex.calls, 1, Len(ex.calls) - 1) ELSE ex.calls

\* The device's input method after the calls, from ime before them.
ImeAfter(ime, calls) ==
    IF \E i \in 1..Len(calls) : calls[i].op = "ime_restore"
                                  /\ calls[i].args[1] \in {ADB_IME, OTHER_IME}
    THEN (CHOOSE c \in {calls[i] : i \in 1..Len(calls)} : c.op = "ime_restore").args[1]
    ELSE IF \E i \in 1..Len(calls) : calls[i].op = "ime_set_adb" THEN ADB_IME
    ELSE ime

\* ------------------------------------------------------------- perception

Screenshot(id, size, fallback) ==
    [id |-> id, width |-> size[1], height |-> size[2], fallback |-> fallback]

NoScreenshot == Screenshot(0, <<0, 0>>, FALSE)

\* What get_screenshot returns: a captured screen, or the black fallback
\* image when the capture fails on the device side (adb error, timeout,
\* unreadable file).  id identifies the image data.
GetScreenshot(id) ==
    {Screenshot(id, size, FALSE) : size \in Screens}
    \cup {Screenshot(id, DEFAULT_FALLBACK_SIZE, TRUE)}

\* ------------------------------------------------------------ model client

Response(thinking, text) == [thinking |-> thinking, action |-> text]

NoResponse == Response("", "")

\* The completions' contents explored.
ModelContents == ModelTexts \cup {C_TYPE_PARENS}

\* re.search fails.
NoMatch == "<no match>"

\* re.search(r"(do|finish)\s*\(.*?\)", clean_content, re.DOTALL): the match
\* runs from the call name to the first closing parenthesis after it.
ActionPattern(content) ==
    CASE content = C_TYPE_PARENS -> T_TYPE_CUT
      [] content \in {T_TYPE_CUT, T_DO_UNQUOTED} -> content
      [] Form(content) \in {"call_do", "call_finish"} -> content
      [] OTHER -> NoMatch

\* The call name the match starts with.
PatternName(content) ==
    CASE ActionPattern(content) = NoMatch -> NoMatch
      [] Form(content) = "call_finish" -> "finish"
      [] OTHER -> "do"

\* _parse_response(content, reasoning_content) with a reasoning: the action
\* text is the match, or without a match the content itself.
ParseResponse(content) ==
    IF ActionPattern(content) # NoMatch THEN ActionPattern(content) ELSE content

\* ModelClient.request(messages): a completion parsed into thinking and
\* action text, the fixed response of an empty completion, or, when the API
\* call raises, the fixed response of its except clause.  It never raises.
Request ==
    {Response("thought", ParseResponse(content)) : content \in ModelContents}
    \cup {Response("", T_EMPTY_RESPONSE)}
    \cup {Response("Error", T_API_FAILED)}

\* ---------------------------------------------------------------- messages

\* A context message; text names what the content was built from (the task
\* and the screen info or the response of step `of`), image the screenshot
\* attached (0: none).
Message(role, task, of, image) ==
    [role |-> role, text |-> [task |-> task, of |-> of], image |-> image]

\* MessageBuilder.create_system_message(system_prompt)
CreateSystemMessage == Message("system", FALSE, 0, 0)

\* MessageBuilder.create_user_message(text, image_base64)
CreateUserMessage(task, of, image) == Message("user", task, of, image)

\* MessageBuilder.create_assistant_message(content)
CreateAssistantMessage(of) == Message("assistant", FALSE, of, 0)

\* MessageBuilder.remove_images_from_message(message)
RemoveImagesFromMessage(message) == [message EXCEPT !.image = 0]

\* The number of images the context carries.
ImageCount(ctx) == Cardinality({i \in 1..Len(ctx) : ctx[i].image # 0})

\* ------------------------------------------------------------------- state

VARIABLES
    verbose,        \* agent_config.verbose
    max_steps,      \* agent_config.max_steps
    context,        \* self._context
    step_count,     \* self._step_count
    ime,            \* the device's default input method
    pc,             \* where the agent is: "idle" between calls, else the
                    \* part of _execute_step that runs next, or "returned"
    mode,           \* the call in progress: "run", "step" or "none"
    is_first,       \* _execute_step's is_first
    user_prompt,    \* _execute_step's user_prompt
    screenshot,     \* _execute_step's screenshot
    response,       \* _execute_step's response
    action,         \* _execute_step's action
    result,         \* _execute_step's result
    stepResult,     \* the StepResult the last step returned
    runReturn,      \* what run() returned, until the next call
    stepError,      \* the last step() or run() call raised
    percept,        \* this step's perception: "none", "ok", "fallback", "raise"
    api,            \* this step's API call: "none", "ok", "empty", "failed"
    parsed,         \* this step's parse_action: "none", "ok", "error"
    exec,           \* this step's first execute(), with the hook's answer
    stepsReturned,  \* StepResults returned to the run() in progress or just
                    \* returned (0 outside)
    runClean        \* no step of that run had a Finish action, a result with
                    \* should_finish, a failed perception or a failed API call

vars ==
    <<max_steps, verbose, context, step_count, ime, pc, mode, is_first, user_prompt,
      screenshot, response, action, result, stepResult, runReturn, stepError, percept,
      api, parsed, exec, stepsReturned, runClean>>

config == <<max_steps, verbose>>

locals == <<user_prompt, screenshot, response, action, result>>

history == <<percept, api, parsed, exec>>

runHistory == <<stepsReturned, runClean>>

StepResult(success, finished, act, thinking, message, shot) ==
    [success |-> success, finished |-> finished, action |-> act,
     thinking |-> thinking, message |-> message, screenshot |-> shot]

\* action=None in a StepResult.
NoAction == NoKwargs

NoStepResult == StepResult(FALSE, FALSE, NoAction, "", NoneMsg, NoScreenshot)

\* run() has not returned.
NoReturn == [fmt |-> "<no return>", arg |-> ""]

NoExec == [raised |-> FALSE, result |-> NoResult, calls |-> <<>>,
           faulted |-> FALSE, answer |-> "none", issued |-> <<>>,
           ime |-> "", current_ime |-> NoneVal]

Init ==
    /\ max_steps \in 0..MaxStepsBound
    /\ verbose \in BOOLEAN
    /\ context = <<>>
    /\ step_count = 0
    /\ ime \in {ADB_IME, OTHER_IME}
    /\ pc = "idle"
    /\ mode = "none"
    /\ is_first = FALSE
    /\ user_prompt = NoneVal
    /\ screenshot = NoScreenshot
    /\ response = NoResponse
    /\ action = NoAction
    /\ result = NoResult
    /\ stepResult = NoStepResult
    /\ runReturn = NoReturn
    /\ stepError = FALSE
    /\ percept = "none"
    /\ api = "none"
    /\ parsed = "none"
    /\ exec = NoExec
    /\ stepsReturned = 0
    /\ runClean = TRUE

\* ----------------------------------------------------------------- actions

\* Entry of _execute_step(user_prompt, is_first) from a context and a step
\* counter: self._step_count += 1, with fresh locals.  returned and
\* clean are the run in progress's record of its steps.
EnterStep(ctx, count, prompt, first, returned, clean) ==
    /\ context' = ctx
    /\ step_count' = count + 1
    /\ is_first' = first
    /\ user_prompt' = prompt
    /\ pc' = "capture"
    /\ screenshot' = NoScreenshot
    /\ response' = NoResponse
    /\ action' = NoAction
    /\ result' = NoResult
    /\ percept' = "none"
    /\ api' = "none"
    /\ parsed' = "none"
    /\ exec' = NoExec
    /\ stepsReturned' = returned
    /\ runClean' = clean
    /\ stepResult' = NoStepResult
    /\ runReturn' = NoReturn
    /\ stepError' = FALSE

\* Faulty variant: run() starts from the state the agent is in.
RunKeepsState ==
    /\ pc = "idle"
    /\ step_count < MaxCalls
    /\ mode' = "run"
    /\ EnterStep(context, step_count, "task", TRUE, 0, TRUE)
    /\ UNCHANGED <<config, ime>>

\* run(task): reset(), then the first step.
Run ==
    /\ pc = "idle"
    /\ mode' = "run"
    /\ EnterStep(<<>>, 0, "task", TRUE, 0, TRUE)
    /\ UNCHANGED <<config, ime>>

\* The task arguments of step(): a task, the empty string, None.
TaskInputs == {"task", "", NoneVal}

\* Faulty variant: step() takes any task argument.
TaskMissingNever(count, task) == FALSE

\* is_first and not task
TaskMissing(count, task) == count = 0 /\ task \in {"", NoneVal}

\* step(task) with a task, or after the first step.
Step ==
    /\ pc = "idle"
    /\ step_count < MaxCalls
    /\ \E task \in TaskInputs :
          /\ ~TaskMissing(step_count, task)
          /\ mode' = "step"
          /\ EnterStep(context, step_count, task, step_count = 0, 0, TRUE)
    /\ UNCHANGED <<config, ime>>

\* step() without a task when the step counter is 0: ValueError.
StepRejected ==
    /\ pc = "idle"
    /\ \E task \in TaskInputs : TaskMissing(step_count, task)
    /\ stepError' = TRUE
    /\ UNCHANGED <<config, context, step_count, ime, pc, mode, is_first, locals,
                   stepResult, runReturn, history, runHistory>>

\* reset()
Reset ==
    /\ pc = "idle"
    /\ context' = <<>>
    /\ step_count' = 0
    /\ stepError' = FALSE
    /\ runReturn' = NoReturn
    /\ stepsReturned' = 0
    /\ runClean' = TRUE
    /\ UNCHANGED <<config, ime, pc, mode, is_first, locals, stepResult, history>>

\* The message of a perception failure.
CaptureFailedMsg == [fmt |-> "Failed to capture screen or app info: ", arg |-> "error"]

\* Faulty variant: a perception failure does not finish the step.
CaptureFailedContinues ==
    StepResult(FALSE, FALSE, NoAction, "", CaptureFailedMsg, NoScreenshot)

\* The StepResult of a perception failure.
CaptureFailedResult ==
    StepResult(FALSE, TRUE, NoAction, "", CaptureFailedMsg, NoScreenshot)

\* Faulty variant: the user message is appended before the screen is
\* captured, so a perception failure leaves it in the context.
CaptureFailsAppends ==
    /\ pc = "capture"
    /\ percept' = "raise"
    /\ context' = Append(context, CreateUserMessage(is_first, step_count, 0))
    /\ stepResult' = CaptureFailedResult
    /\ stepsReturned' = IF mode = "run" THEN stepsReturned + 1 ELSE 0
    /\ runClean' = (mode # "run")
    /\ pc' = "returned"
    /\ UNCHANGED <<config, step_count, ime, mode, is_first, locals,
                   runReturn, stepError, api, parsed, exec>>

\* _execute_step, 1: get_screenshot raises (get_current_app never does: it
\* catches every exception and answers "System Home").
CaptureFails ==
    /\ pc = "capture"
    /\ percept' = "raise"
    /\ stepResult' = CaptureFailedResult
    /\ stepsReturned' = IF mode = "run" THEN stepsReturned + 1 ELSE 0
    /\ runClean' = (mode # "run")
    /\ pc' = "returned"
    /\ UNCHANGED <<config, context, step_count, ime, mode, is_first, locals,
                   runReturn, stepError, api, parsed, exec>>

\* The context after _execute_step's part 2: the system message on the first
\* step, then the user message with the screenshot.
BuildMessages(ctx, first, count, shot) ==
    (IF first THEN Append(ctx, CreateSystemMessage) ELSE ctx)
    \o <<CreateUserMessage(first, count, shot.id)>>

\* _execute_step, 1 and 2: the screen is captured and the messages built.
Capture ==
    /\ pc = "capture"
    /\ \E shot \in GetScreenshot(step_count) :
          /\ screenshot' = shot
          /\ percept' = IF shot.fallback THEN "fallback" ELSE "ok"
          /\ context' = BuildMessages(context, is_first, step_count, shot)
    /\ pc' = "request"
    /\ UNCHANGED <<config, step_count, ime, mode, is_first, user_prompt, response,
                   action, result, stepResult, runReturn, stepError, api, parsed, exec,
                   runHistory>>

\* _execute_step, 3: self.model_client.request(self._context).  The except
\* clause of this part is not reached: request() catches every exception.
RequestModel ==
    /\ pc = "request"
    /\ \E r \in Request :
          /\ response' = r
          /\ api' = CASE r.action = T_API_FAILED -> "failed"
                      [] r.action = T_EMPTY_RESPONSE -> "empty"
                      [] OTHER -> "ok"
    /\ pc' = "parse"
    /\ UNCHANGED <<config, context, step_count, ime, mode, is_first, user_prompt,
                   screenshot, action, result, stepResult, runReturn, stepError, percept,
                   parsed, exec, runHistory>>

\* Faulty variant: the message leaves the raw output out.
ParseFailedFinishNoText(text) ==
    FinishWith([fmt |-> "Failed to parse model action.", arg |-> ""])

\* finish(message=f"Failed to parse model action. Raw output: {response.action}")
ParseFailedFinish(text) ==
    FinishWith([fmt |-> "Failed to parse model action. Raw output: ", arg |-> text])

\* The context with the images of its last message removed.
StripLast(ctx) ==
    [ctx EXCEPT ![Len(ctx)] = RemoveImagesFromMessage(ctx[Len(ctx)])]

\* The action _execute_step goes on with after part 4.
ParsedAction(text) ==
    IF parse_action(text).ok THEN parse_action(text).action ELSE ParseFailedFinish(text)

\* json.dumps(action, ensure_ascii=False, indent=2) raises TypeError: the
\* action holds a value that is not JSON serializable.
JsonDumpsRaises(act) == act.note = FinishFunction

\* _execute_step, 4: parse the action; the verbose printing of the action
\* raises, and the exception leaves step() or run() before part 5.
PrintRaises ==
    /\ pc = "parse"
    /\ verbose
    /\ JsonDumpsRaises(ParsedAction(response.action))
    /\ action' = ParsedAction(response.action)
    /\ parsed' = IF parse_action(response.action).ok THEN "ok" ELSE "error"
    /\ stepError' = TRUE
    /\ pc' = "idle"
    /\ mode' = "none"
    /\ UNCHANGED <<config, context, step_count, ime, is_first, user_prompt,
                   screenshot, response, result, stepResult, runReturn, percept, api,
                   exec, runHistory>>

\* _execute_step, 4 and 5: parse the action, strip the image.
ParseAction ==
    /\ pc = "parse"
    /\ ~(verbose /\ JsonDumpsRaises(ParsedAction(response.action)))
    /\ LET p == parse_action(response.action)
       IN  /\ action' = IF p.ok THEN p.action ELSE ParseFailedFinish(response.action)
           /\ parsed' = IF p.ok THEN "ok" ELSE "error"
    /\ context' = StripLast(context)
    /\ pc' = "execute"
    /\ UNCHANGED <<config, step_count, ime, mode, is_first, user_prompt, screenshot,
                   response, result, stepResult, runReturn, stepError, percept, api, exec,
                   runHistory>>

\* Faulty variant: the fallback Finish carries no message.
ExecutionFailedSilent == FinishWith(NoneMsg)

\* finish(message=f"Action execution failed: {e}")
ExecutionFailedFinish ==
    FinishWith([fmt |-> "Action execution failed: ", arg |-> "unhashable type: 'list'"])

\* What the confirmation hook answered in an execution.
HookAnswer(ex, answer) ==
    IF \A i \in 1..Len(ex.calls) : ex.calls[i].op # "confirm" THEN "none"
    ELSE IF ex.faulted /\ ex.calls[Len(ex.calls)].op = "confirm" THEN "raise"
    ELSE IF answer THEN "yes" ELSE "no"

\* The arguments of the tap primitive's call in an execution, when the call
\* was made and did not raise.
TapCall(ex) ==
    LET done == Completed(ex)
    IN  IF \E i \in 1..Len(done) : done[i].op = "tap"
        THEN done[CHOOSE i \in 1..Len(done) : done[i].op = "tap"].args
        ELSE <<>>

\* The jitters tap() may draw in an execution (one pair when it is not
\* called).
Jitters(ex) == IF TapCall(ex) = <<>> THEN {<<0, 0>>} ELSE Jitter \X Jitter

\* The coordinates of the "input tap" command the execution issued (<<>>:
\* tap() was not called).
Issued(ex, jitter) ==
    IF TapCall(ex) = <<>> THEN <<>>
    ELSE tap(TapCall(ex)[1], TapCall(ex)[2], jitter[1], jitter[2])

\* The answers the input-method query may give in the execution of an
\* action on a device with that input method (one when no query is made).
Queries(act, method) ==
    IF act.metadata = "do" /\ act.action \in {"Type", "Type_Name"}
    THEN ImeQuery(method) ELSE {method}

\* What the input-method query answered in an execution (None: it was not
\* made or it raised).
Queried(ex, current_ime) ==
    IF \E i \in 1..Len(Completed(ex)) : Completed(ex)[i].op = "ime_get"
    THEN current_ime ELSE NoneVal

\* _execute_step, 6: execute the action; if execute raises, execute a finish.
Execute ==
    /\ pc = "execute"
    /\ \E answer \in BOOLEAN, appKnown \in BOOLEAN, current_ime \in Queries(action, ime) :
          \E fault \in 0..Len(PlannedCalls(action, screenshot.width, screenshot.height,
                                           answer, appKnown, current_ime)) :
             LET ex == execute(action, screenshot.width, screenshot.height,
                               answer, appKnown, fault, current_ime)
                 fb == execute(ExecutionFailedFinish, screenshot.width,
                               screenshot.height, answer, appKnown, 0, current_ime)
             IN  /\ result' = IF ex.raised THEN fb.result ELSE ex.result
                 /\ \E jitter \in Jitters(ex) :
                       exec' = [raised |-> ex.raised, result |-> ex.result,
                                calls |-> ex.calls, faulted |-> ex.faulted,
                                answer |-> HookAnswer(ex, answer),
                                issued |-> Issued(ex, jitter),
                                ime |-> ime,
                                current_ime |-> Queried(ex, current_ime)]
                 /\ ime' = ImeAfter(ime, Completed(ex))
    /\ pc' = "append"
    /\ UNCHANGED <<config, context, step_count, mode, is_first, user_prompt,
                   screenshot, response, action, stepResult, runReturn, stepError, percept,
                   api, parsed, runHistory>>

\* Faulty variant: only a Finish action finishes the step.
FinishedByActionOnly(act, res) == act.metadata = "finish"

\* finished = action.get("_metadata") == "finish" or result.should_finish
Finished(act, res) == act.metadata = "finish" \/ res.should_finish

\* _execute_step, 7 and 8: append the assistant message, return the result.
AppendAndReturn ==
    /\ pc = "append"
    /\ context' = Append(context, CreateAssistantMessage(step_count))
    /\ stepResult' = StepResult(result.success, Finished(action, result), action,
                                response.thinking,
                                Or(result.message, GetMessage(action)), screenshot)
    /\ stepsReturned' = IF mode = "run" THEN stepsReturned + 1 ELSE 0
    /\ runClean' = IF mode = "run"
                   THEN /\ runClean
                        /\ action.metadata # "finish"
                        /\ ~result.should_finish
                        /\ api # "failed"
                   ELSE TRUE
    /\ pc' = "returned"
    /\ UNCHANGED <<config, step_count, ime, mode, is_first, locals, runReturn,
                   stepError, history>>

\* step() returns the StepResult.
StepReturns ==
    /\ pc = "returned"
    /\ mode = "step"
    /\ pc' = "idle"
    /\ mode' = "none"
    /\ UNCHANGED <<config, context, step_count, ime, is_first, locals, stepResult,
                   runReturn, stepError, history, runHistory>>

\* run(): return result.message or "Task completed"
RunFinishes ==
    /\ pc = "returned"
    /\ mode = "run"
    /\ stepResult.finished
    /\ runReturn' = Or(stepResult.message, Str("Task completed"))
    /\ pc' = "idle"
    /\ mode' = "none"
    /\ UNCHANGED <<config, context, step_count, ime, is_first, locals, stepResult,
                   stepError, history, runHistory>>

\* while self._step_count < self.agent_config.max_steps
LoopCondition(count, limit) == count < limit

\* run(): the loop takes another step.
RunContinues ==
    /\ pc = "returned"
    /\ mode = "run"
    /\ ~stepResult.finished
    /\ LoopCondition(step_count, max_steps)
    /\ EnterStep(context, step_count, NoneVal, FALSE, stepsReturned, runClean)
    /\ UNCHANGED <<config, ime, mode>>

\* run(): return "Max steps reached"
RunExhausted ==
    /\ pc = "returned"
    /\ mode = "run"
    /\ ~stepResult.finished
    /\ ~LoopCondition(step_count, max_steps)
    /\ runReturn' = Str("Max steps reached")
    /\ pc' = "idle"
    /\ mode' = "none"
    /\ UNCHANGED <<config, context, step_count, ime, is_first, locals, stepResult,
                   stepError, history, runHistory>>

Next ==
    \/ Run
    \/ Step
    \/ StepRejected
    \/ Reset
    \/ CaptureFails
    \/ Capture
    \/ RequestModel
    \/ PrintRaises
    \/ ParseAction
    \/ Execute
    \/ AppendAndReturn
    \/ StepReturns
    \/ RunFinishes
    \/ RunContinues
    \/ RunExhausted

Spec == Init /\ [][Next]_vars

\* -------------------------------------------------------------- properties

\* The tap primitive's invocations in an execution.
TapCalls(calls) == {i \in 1..Len(calls) : calls[i].op = "tap"}

\* The step that just ran reached execute().
ReachedExecution == pc \in {"append", "returned"} /\ percept \in {"ok", "fallback"}

\* The step in hand executed a Tap that carries a message.
SensitiveTapExecuted ==
    /\ ReachedExecution
    /\ action.metadata = "do"
    /\ action.action = "Tap"
    /\ IsSensitive(action)

\* C1 as stated: a run with max_steps = N >= 1 in which no step has a Finish
\* action, a should_finish result, a failed perception or a failed inference
\* is not ended before its N-th step, takes no step beyond it, and returns
\* "Max steps reached" after exactly N steps.
C1_Original ==
    /\ []((max_steps >= 1 /\ runClean) =>
            /\ (mode = "run" => stepsReturned <= max_steps /\ step_count <= max_steps)
            /\ (mode = "run" /\ pc = "returned" => ~stepResult.finished)
            /\ (pc = "idle" /\ runReturn # NoReturn =>
                    /\ runReturn = Str("Max steps reached")
                    /\ stepsReturned = max_steps
                    /\ step_count = max_steps))
    /\ [][(max_steps >= 1 /\ runClean /\ mode = "run" /\ mode' # "run") =>
            /\ runReturn' = Str("Max steps reached")
            /\ stepsReturned' = max_steps]_vars

\* C2 as stated: when a step has ended, whatever its outcome, no message of
\* the context carries an image; and the context never carries more than one.
C2_Original ==
    /\ ImageCount(context) <= 1
    /\ (pc \in {"returned", "idle"} => ImageCount(context) = 0)

\* C3 as stated: for a Tap with a message the hook is called before any tap;
\* on a false answer the result is {success: false, should_finish: true} and
\* no tap is invoked; on a true answer the tap is invoked exactly once and
\* the result is {success: true, should_finish: false}.
C3_Original ==
    SensitiveTapExecuted =>
        /\ \A i \in TapCalls(exec.calls) :
              \E j \in 1..(i - 1) : exec.calls[j].op = "confirm"
        /\ (exec.answer = "no" =>
                /\ ~exec.result.success /\ exec.result.should_finish
                /\ TapCalls(exec.calls) = {})
        /\ (exec.answer = "yes" =>
                /\ Cardinality(TapCalls(exec.calls)) = 1
                /\ exec.result.success /\ ~exec.result.should_finish)

\* C3, amended: as C3, but on a true answer the result is {success: true,
\* should_finish: false} when the tap primitive returns and {success: false,
\* should_finish: false} when it raises.
C3_ConfirmationGate ==
    SensitiveTapExecuted =>
        /\ \A i \in TapCalls(exec.calls) :
              \E j \in 1..(i - 1) : exec.calls[j].op = "confirm"
        /\ (exec.answer = "no" =>
                /\ ~exec.result.success /\ exec.result.should_finish
                /\ exec.result.message = Str("User cancelled sensitive operation")
                /\ TapCalls(exec.calls) = {})
        /\ (exec.answer = "yes" =>
                /\ Cardinality(TapCalls(exec.calls)) = 1
                /\ exec.result.success = ~exec.faulted
                /\ ~exec.result.should_finish)

C3_Witness ==
    /\ SensitiveTapExecuted
    /\ exec.answer = "no"
    /\ exec.calls = <<Call("confirm", <<>>)>>
    /\ exec.result.should_finish

\* C4: a step that reached execution has finished = (the action is a Finish)
\* or (the result has should_finish); a Finish action gives finished = true,
\* and a Tap without a message gives finished = false whatever the device
\* driver does.
C4_FinishedFlag ==
    (pc = "returned" /\ ReachedExecution) =>
        /\ stepResult.finished =
              (stepResult.action.metadata = "finish" \/ result.should_finish)
        /\ (action.metadata = "finish" => stepResult.finished)
        /\ (action.metadata = "do" /\ action.action = "Tap" /\ ~IsSensitive(action)
                => ~stepResult.finished)

C4_Witness ==
    /\ pc = "returned"
    /\ action.metadata = "do" /\ action.action = "Tap" /\ ~IsSensitive(action)
    /\ exec.faulted
    /\ ~stepResult.finished

\* The executor cancelled a Tap because the confirmation hook said no.
TapCancelled ==
    /\ action.metadata = "do"
    /\ action.action = "Tap"
    /\ IsSensitive(action)
    /\ exec.answer = "no"

C6_Original ==
    (pc = "returned" /\ api = "failed") =>
        /\ ~stepResult.success
        /\ stepResult.finished
        /\ stepResult.action = NoAction
        /\ stepResult.screenshot = screenshot
        /\ parsed = "none"

C8_ParseFailure ==
    /\ [](pc = "returned" /\ parsed = "error" =>
            /\ stepResult.action.metadata = "finish"
            /\ stepResult.finished
            /\ stepResult.message =
                  [fmt |-> "Failed to parse model action. Raw output: ",
                   arg |-> response.action]
            /\ exec.calls = <<>>)
    /\ [][(pc = "returned" /\ parsed = "error" /\ mode = "run") =>
            /\ pc' = "idle"
            /\ runReturn' = stepResult.message
            /\ step_count' = step_count]_vars

C8_Witness ==
    /\ pc = "idle"
    /\ parsed = "error"
    /\ runReturn = [fmt |-> "Failed to parse model action. Raw output: ",
                    arg |-> T_PROSE]

\* C9 as stated: a do-action whose action name has no handler gives
\* {success: false, should_finish: false, "Unknown action: <name>"} and no
\* fault, invokes nothing, and the step has finished = false.
C9_Original ==
    (ReachedExecution /\ action.metadata = "do" /\ action.action \notin HandlerNames)
        =>
        /\ ~exec.raised
        /\ exec.result = ActionResult(FALSE, FALSE,
                                      [fmt |-> "Unknown action: ", arg |-> action.action])
        /\ exec.calls = <<>>
        /\ (pc = "returned" => ~stepResult.finished)

\* C10 as stated: execute() returns an ActionResult for every action and
\* never raises; a fault while handling the action gives {success: false,
\* should_finish: false}.
C10_Original ==
    ReachedExecution =>
        /\ ~exec.raised
        /\ (exec.faulted => ~exec.result.success /\ ~exec.result.should_finish)

\* The primitives and hooks of an execution that took effect, as a set of
\* operation names.
CompletedOps(ex) == {Completed(ex)[i].op : i \in 1..Len(Completed(ex))}

\* The step in hand executed a Type action.
TypeExecuted ==
    /\ ReachedExecution
    /\ action.metadata = "do"
    /\ action.action \in {"Type", "Type_Name"}

\* C11: in every execution of a Type action in which the input method was
\* switched to the ADB keyboard, the original input method has been restored
\* when execute() returns, also when clearing or typing failed.
C11_Original ==
    (TypeExecuted /\ "ime_set_adb" \in CompletedOps(exec))
        => "ime_restore" \in CompletedOps(exec)

\* The step in hand executed a Take_over action.
TakeoverExecuted ==
    /\ ReachedExecution
    /\ action.metadata = "do"
    /\ action.action = "Take_over"

C13_Original ==
    context # <<>> =>
        /\ context[1] = CreateSystemMessage
        /\ Cardinality({i \in 1..Len(context) : context[i].role = "system"}) = 1
        /\ \A i \in 1..Len(context) :
              context[i].role = "user" => (context[i].text.task <=> i = 2)

\* C14: step() without a task (None or empty) while the step counter is 0
\* never enters _execute_step: a step() that proceeds at counter 0 carries a
\* task, and the rejected call raises and leaves the context, the counter,
\* the device and the record of perception, inference and execution as they
\* were.
C14_StepRejected ==
    /\ [][(pc = "idle" /\ step_count = 0 /\ mode' = "step" /\ pc' = "capture")
            => user_prompt' = "task"]_vars
    /\ [][(pc = "idle" /\ stepError') =>
            /\ step_count = 0
            /\ pc' = "idle"
            /\ UNCHANGED <<context, step_count, ime, locals, history>>]_vars

C14_Witness ==
    /\ stepError
    /\ pc = "idle"
    /\ step_count = 0
    /\ context = <<>>
    /\ percept = "none"

\* The context a run has built when n of its steps have passed perception
\* and returned: the system message, then for each step its user message
\* (the first with the task) without image and its assistant message.
RunContext(n) ==
    IF n = 0 THEN <<>>
    ELSE [i \in 1..(2 * n + 1) |->
            IF i = 1 THEN CreateSystemMessage
            ELSE IF i % 2 = 0 THEN CreateUserMessage(i = 2, i \div 2, 0)
            ELSE CreateAssistantMessage((i - 1) \div 2)]

\* C15: reset() empties the context and zeroes the step counter in one
\* step, and a run() starts from that state: its first step is step 1 on an
\* empty context with fresh locals, its counter counts its own steps only and
\* its context holds the messages of its own steps only, whatever was done
\* with the agent before.
C15_RunFromReset ==
    /\ [](mode = "run" =>
            /\ stepsReturned = (IF pc = "returned" THEN step_count ELSE step_count - 1)
            /\ (pc = "capture" => context = RunContext(step_count - 1))
            /\ (pc = "capture" => is_first = (step_count = 1))
            /\ (pc = "returned" =>
                  context = RunContext(IF percept = "raise"
                                       THEN step_count - 1 ELSE step_count)))
    /\ [][(pc = "idle" /\ mode' = "run") =>
            /\ context' = <<>> /\ step_count' = 1 /\ is_first'
            /\ stepResult' = NoStepResult /\ runReturn' = NoReturn]_vars
    /\ [][(pc = "idle" /\ pc' = "idle" /\ ~stepError'
           /\ <<context, step_count>> # <<context', step_count'>>)
            => (context' = <<>> /\ step_count' = 0)]_vars

C15_Witness ==
    /\ mode = "run"
    /\ pc = "returned"
    /\ step_count = 2
    /\ context = RunContext(2)
    /\ ime = ADB_IME

\* run() has returned, and stepResult is the result of its last step.
RunReturned == pc = "idle" /\ runReturn # NoReturn

\* C16 as stated: run() returns "Max steps reached" if and only if no step
\* of the run had finished = true.
C16_Original ==
    RunReturned => (runReturn = Str("Max steps reached") <=> ~stepResult.finished)

\* C16: a step with finished = true is the last step of its run, and run()
\* returns that step's message, or "Task completed" when the message is None
\* or empty; after a step with finished = false run() either takes another
\* step or returns "Max steps reached"; so a run no step of which finished
\* returns "Max steps reached".
C16_RunReturnValue ==
    /\ [][(mode = "run" /\ pc = "returned" /\ stepResult.finished) =>
            /\ pc' = "idle"
            /\ step_count' = step_count
            /\ stepResult' = stepResult
            /\ runReturn' = (IF Truthy(stepResult.message)
                             THEN stepResult.message ELSE Str("Task completed"))]_vars
    /\ [][(mode = "run" /\ pc = "returned" /\ ~stepResult.finished) =>
            \/ pc' = "capture" /\ runReturn' = NoReturn
            \/ /\ pc' = "idle"
               /\ stepResult' = stepResult
               /\ runReturn' = Str("Max steps reached")]_vars
    /\ []((RunReturned /\ ~stepResult.finished) => runReturn = Str("Max steps reached"))
    /\ []((RunReturned /\ stepResult.finished /\ stepResult.action.metadata = "finish"
           /\ parsed = "ok")
            => runReturn = (IF Truthy(GetMessage(stepResult.action))
                            THEN GetMessage(stepResult.action)
                            ELSE Str("Task completed")))

C16_Witness ==
    /\ RunReturned
    /\ stepResult.finished
    /\ step_count = 2
    /\ max_steps = 3
    /\ runReturn = Str("done")

\* The step in hand executed a Tap whose tap primitive was called.
TapIssued ==
    /\ ReachedExecution
    /\ action.metadata = "do"
    /\ action.action = "Tap"
    /\ exec.issued # <<>>

\* C17 as stated: the coordinates that reach the device for a Tap are the
\* conversion of the action's normalized coordinates by the width and height
\* of the screenshot of the same step, and nothing else enters them.
C17_Original ==
    TapIssued =>
        exec.issued = <<Pixel(action.element.x, screenshot.width),
                        Pixel(action.element.y, screenshot.height)>>

\* round(n / 1000 * d): the nearest integer (a half goes up).
Round(n, d) == (2 * n * d + 1000) \div 2000

\* C18 as stated: the pixel coordinates the executor passes to the tap,
\* double-tap and long-press primitives are the nearest integers to
\* n / 1000 * d for the element's normalized coordinates and the screen's
\* width and height.
C18_Original ==
    ReachedExecution =>
        \A i \in 1..Len(exec.calls) :
            exec.calls[i].op \in {"tap", "double_tap", "long_press"} =>
                exec.calls[i].args = <<Round(action.element.x, screenshot.width),
                                       Round(action.element.y, screenshot.height)>>

\* A coordinate field that is present and is not a pair of numbers.
Malformed(c) == c.form \in {"word", "short"}

\* The step in hand executed a Tap, Double Tap, Long Press or Swipe with a
\* malformed coordinate field.
BadCoordinatesExecuted ==
    /\ ReachedExecution
    /\ action.metadata = "do"
    /\ \/ action.action \in {"Tap", "Double Tap", "Long Press"}
          /\ Malformed(action.element)
       \/ action.action = "Swipe"
          /\ (Malformed(action.start) \/ Malformed(action.end))

\* C19: a Tap, Double Tap, Long Press or Swipe whose coordinate field is not
\* a pair of numbers gives {success: false, should_finish: false} from
\* execute(), which does not raise; no device primitive and no hook is
\* called; the step has finished = false and a run with budget left takes
\* its next step.
C19_BadCoordinates ==
    /\ [](BadCoordinatesExecuted =>
            /\ ~exec.raised
            /\ exec.calls = <<>>
            /\ exec.answer = "none"
            /\ ~exec.result.success
            /\ ~exec.result.should_finish
            /\ (pc = "returned" => ~stepResult.finished /\ ~stepResult.success))
    /\ [][(BadCoordinatesExecuted /\ pc = "returned" /\ mode = "run"
           /\ step_count < max_steps)
            => (pc' = "capture" /\ mode' = "run" /\ step_count' = step_count + 1)]_vars

C19_Witness ==
    /\ BadCoordinatesExecuted
    /\ action.action = "Swipe"
    /\ pc = "returned"
    /\ mode = "run"
    /\ step_count = 2
    /\ max_steps = 3
    /\ ~stepResult.finished
    /\ stepResult.message = [fmt |-> "Action failed: ", arg |-> "Invalid element format"]

\* The step in hand has parsed its action text.
ActionParsed == pc \in {"execute", "append", "returned"} /\ parsed # "none"

\* C20 as stated: an action text in which a do(...) call expression is found
\* is never turned into a Finish by the parser: it gives that do action or a
\* parse error.
C20_Original ==
    (ActionParsed /\ PatternName(response.action) = "do") =>
        \/ parsed = "error"
        \/ action = do(Kwargs(response.action))

\* C21 as stated: an action text in which no do(...) or finish(...) call is
\* found parses to Finish "Task Completed" when it contains "finish", and is
\* a parse error otherwise; no other action comes out of it.
C21_Original ==
    (ActionParsed /\ PatternName(response.action) = NoMatch) =>
        IF ContainsFinish(response.action)
        THEN parsed = "ok" /\ action = TaskCompleted
        ELSE parsed = "error"

\* The step in hand executed a Tap without message whose element holds two
\* integers, as a pair, as the string of a pair, or inside other text.
TwoIntegersTapExecuted ==
    /\ ReachedExecution
    /\ action.metadata = "do"
    /\ action.action = "Tap"
    /\ ~IsSensitive(action)
    /\ action.element.form \in {"list", "str", "text", "dict"}

\* C22 as stated: whichever of these forms the element has, the executor
\* calls the tap primitive with the same pixel pair, the conversion of the
\* two integers by the screen's width and height.
C22_Original ==
    TwoIntegersTapExecuted =>
        /\ Len(exec.calls) = 1
        /\ exec.calls[1].op = "tap"
        /\ exec.calls[1].args = <<Pixel(action.element.x, screenshot.width),
                                  Pixel(action.element.y, screenshot.height)>>

\* C23 as stated: an action text holding an expression other than a call of
\* do or finish with literal keyword values is a parse failure.
C23_Original ==
    (ActionParsed /\ OtherExpression(response.action)) => parsed = "error"

\* C24 as stated: during a run the step counter never exceeds max_steps,
\* for every max_steps, 0 included.
C24_Original == mode = "run" => step_count <= max_steps

\* C25 as stated: when the executor runs, the context already ends with the
\* assistant message of the step.
C25_Original ==
    [][(pc = "execute" /\ pc' = "append") =>
          context[Len(context)] = CreateAssistantMessage(step_count)]_vars

C27_Original ==
    pc = "request" =>
        /\ ImageCount(context) = 1
        /\ context[Len(context)].role = "user"
        /\ context[Len(context)].image = screenshot.id
        /\ screenshot.id = step_count

\* The input-method commands of an execution that switch or restore.
ImeCommands(ex) ==
    {i \in 1..Len(ex.calls) : ex.calls[i].op \in {"ime_enable", "ime_set_adb", "ime_restore"}}

\* C28 as stated: a Type action that began with the device on the ADB
\* keyboard issues no command that switches or restores the input method.
C28_Original ==
    (TypeExecuted /\ exec.ime = ADB_IME) => ImeCommands(exec) = {}

\* C29 as stated: after a Type action that completed without fault the
\* device's input method is the one it had before the action, whatever the
\* input-method query answered.
C29_Original ==
    (TypeExecuted /\ ~exec.raised /\ ~exec.faulted) => ime = exec.ime

\* C30 as stated: once a step has returned finished = true, a later step()
\* call does not enter _execute_step: it leaves the context and the step
\* counter as they are, until reset() or run() is called.
C30_Original ==
    [][(pc = "idle" /\ step_count > 0 /\ stepResult.finished /\ mode' = "step")
          => (pc' = "idle" /\ UNCHANGED <<context, step_count>>)]_vars

\* The steps that reached execution since the last reset: each of them, and
\* no other step, appended an assistant message.
StepsExecuted(ctx) == Cardinality({i \in 1..Len(ctx) : ctx[i].role = "assistant"})

\* [system, user, assistant, user, assistant, ...] of length 1 + 2k.
Alternates(ctx, k) ==
    /\ Len(ctx) = 1 + 2 * k
    /\ \A i \in 1..Len(ctx) :
          ctx[i].role = (IF i = 1 THEN "system"
                         ELSE IF i % 2 = 0 THEN "user" ELSE "assistant")

\* C31 as stated: between steps, after k >= 1 steps that reached execution
\* since the last reset, the context is [system, user, assistant, ...] of
\* length 1 + 2k; and a step keeps the earlier messages, their order and
\* their text.
C31_Original ==
    /\ []((pc \in {"idle", "returned"} /\ StepsExecuted(context) >= 1)
            => Alternates(context, StepsExecuted(context)))
    /\ [][Len(context') >= Len(context) =>
            \A i \in 1..Len(context) :
                /\ context'[i].role = context[i].role
                /\ context'[i].text = context[i].text]_vars

====
